---- MODULE Spec2Model ----
(***************************************************************************)
(* Model of scripts/deploy-agents.py: the deployment orchestrator.         *)
(*                                                                         *)
(* One process run is main(): argument parsing, prerequisite check,        *)
(* inventory parsing, filters, resume/retry policy, the early exits        *)
(* (check, dry-run, declined confirmation) and the deploy step, which      *)
(* calls deploy_and_record for every selected device either in a loop      *)
(* (args.parallel = 1) or on a ThreadPoolExecutor (args.parallel > 1).     *)
(* The state file survives the process; NewRun starts the next process.    *)
(*                                                                         *)
(* Abstractions: timestamps, durations, log contents and message texts     *)
(* are left out; an error message is modelled by its kind.  The inventory  *)
(* rows are the hosts 1..NumHosts with a fixed platform each; which rows   *)
(* are valid is an input of every run.                                     *)
(*                                                                         *)
(* Faults: subprocess.run raises (TimeoutExpired, OSError) in scp_file and *)
(* ssh_run, which do not catch it; json.dump raises RuntimeError when the  *)
(* dict gets a new key while it is iterated, and OSError when the write    *)
(* fails.  Failures of the log file and of open() of the state file are    *)
(* not modelled.                                                           *)
(*                                                                         *)
(* Specifications: Spec is main() run after run.  SpecDeploy is the deploy *)
(* step of a first run with the history variable trace switched on, which  *)
(* records the steps of every deploy_and_record call and their results.    *)
(* SpecLoad is step 5 of main() started on a state file of any content     *)
(* (hand-edited, damaged), where file and mem hold JSON documents of any   *)
(* shape instead of the well-formed maps _save writes.                     *)
(* SpecMessage is one deploy_and_record call with the texts of its error   *)
(* messages: which path the call takes and the captured text are inputs.   *)
(***************************************************************************)
EXTENDS Integers, FiniteSets, Sequences, Bags, TLC

\* ------------------------------------------------------------------------
\* Bounds of the model
\* ------------------------------------------------------------------------

\* number of rows of the inventory
NumHosts == 3

\* --parallel is requested in (MinParallel - ReqMargin)..(MaxParallel + ReqMargin)
ReqMargin == 1

\* largest effective --parallel of the traced deploy step (SpecDeploy)
TracedPool == 2

\* SpecMessage: a captured text has up to MaxBlank blanks at either end
MaxBlank == 1

\* SpecMessage: the length of a captured text without its blanks is at most
\* Excess, or within Excess of ErrorLimit
Excess == 2

\* ------------------------------------------------------------------------
\* Program constants
\* ------------------------------------------------------------------------

\* parse_args: "if args.parallel < 1: args.parallel = 1"
MinParallel == 1

\* parse_args: "elif args.parallel > 5: args.parallel = 5"
MaxParallel == 5

\* deploy_device: "if len(error) > 200: error = "..." + error[-200:]"
ErrorLimit == 200

\* sys.exit(0) sites and the fall off the end of main()
ExitSuccess == 0

\* sys.exit(1) after "if any(not r.success for r in results)"
ExitHostFailure == 1

\* mutant: configuration errors get an exit status of their own
ExitConfigErrorOwn == 1 + 1

\* sys.exit(1) of the inventory, filter and prerequisite errors
ExitConfigError == 1

\* sys.exit(1) after "Aborted." at the token prompt
ExitAborted == 1

\* exit status of the interpreter on an uncaught exception
ExitCrash == 1

\* exit_code while the process is running
NoExit == -1

VALID_PLATFORMS == {"raspberrypi", "radxa", "macos"}

Hosts == 1..NumHosts

\* Device.platform of the inventory rows: the two Linux platforms
\* alternate, no row is a macos device
PlatformOf(h) == IF h % 2 = 1 THEN "raspberrypi" ELSE "radxa"

RequestedParallel == (MinParallel - ReqMargin)..(MaxParallel + ReqMargin)

\* args.device: 0 stands for "option not given"
NoDevice == 0

\* args.platform: "none" stands for "option not given"
NoPlatform == "none"

Statuses == {"absent", "success", "failed"}

\* the empty dict
EmptyState == [h \in Hosts |-> "absent"]

\* A state file: ok = FALSE is a file json.load cannot parse (truncated by
\* open(..., "w") or partly written); a file that does not exist is the
\* readable file with no entry.
NoFile == [ok |-> TRUE, map |-> EmptyState]

CorruptFile == [ok |-> FALSE, map |-> EmptyState]

GoodFile(m) == [ok |-> TRUE, map |-> m]

VARIABLES
    main_pc,      \* position of main()
    dry_run,      \* args.dry_run
    check,        \* args.check
    parallel,     \* args.parallel after parse_args
    use_github,   \* args.github as passed to deploy_and_record
    policy,       \* args.resume, args.retry_failed, args.force as read in step 5
    filtered,     \* devices after step 4 (filters), before step 5
    devices,      \* the list "devices" of main()
    mem,          \* StateManager.state
    file,         \* content of the state file
    lock,         \* StateManager._lock: 0 free, else the host whose worker holds it
    snap,         \* the dict as it was when json.dump started to iterate it
    pc,           \* per host: position of its deploy_and_record call
    res,          \* per host: result.success of deploy_device
    fault,        \* per host: its deploy_and_record call raised
    touched,      \* per host: a remote operation was performed in this run
    results,      \* the list "results" of main(), as a bag
    exit_code,    \* exit status of the process
    exit_class,   \* which exit site was taken
    fileAtStart,  \* history: the state file when the process started; from
                  \* the deploy step on, its entries of the hosts that are
                  \* not deployed to
    prevOutcome,  \* history: per host, its outcome in the latest deploy step
    trace,        \* history: per host, the steps of its deploy_and_record
                  \* call of this run with their results, in order
    tracing,      \* whether the history variable trace is kept
    call,         \* SpecMessage: the inputs of one deploy_and_record call
                  \* (which path it takes, the captured text) and its stage
    deployment_result,  \* SpecMessage: the DeploymentResult of that call
    state_entry   \* SpecMessage: self.state[device_name] of that call

vars == <<main_pc, dry_run, check, parallel, use_github, policy, filtered,
          devices, mem, file, lock, snap, pc, res, fault, touched, results,
          exit_code, exit_class, fileAtStart, prevOutcome, trace, tracing,
          call, deployment_result, state_entry>>

argVars == <<dry_run, check, parallel>>
storeVars == <<mem, file, lock, snap>>
hostVars == <<pc, res, fault, touched, trace>>
msgVars == <<call, deployment_result, state_entry>>
histVars == <<fileAtStart, prevOutcome, tracing, msgVars>>

\* values of the variables of SpecMessage before the call
NoCall == [path |-> "none", text |-> << >>, stage |-> "none"]
NoResult == [returned |-> FALSE, success |-> FALSE, error_message |-> << >>]
NoEntry == [status |-> "absent", error |-> << >>]

NoPolicy == [resume |-> FALSE, retry_failed |-> FALSE, force |-> FALSE]

\* ------------------------------------------------------------------------
\* Pure functions
\* ------------------------------------------------------------------------

\* mutant: the upper limit of parse_args is forgotten
ClampLowerOnly(n) == IF n < MinParallel THEN MinParallel ELSE n

\* parse_args, "Validate parallel range"
Clamp(n) ==
    IF n < MinParallel THEN MinParallel
    ELSE IF n > MaxParallel THEN MaxParallel
    ELSE n

\* StateManager._load
Load(f) == IF f.ok THEN f.map ELSE EmptyState

\* StateManager.get_status; None is "absent"
GetStatus(m, h) == m[h]

\* keys of the dict
Keys(m) == {h \in Hosts : m[h] # "absent"}

\* DeploymentResult as collected by main(): error is the kind of
\* error_message
Result(h, ok, err) == [device |-> h, success |-> ok, error |-> err]

Min(S) == CHOOSE x \in S : \A y \in S : x <= y

\* positions of a deploy_and_record call that is running
WorkerPcs == {"probe", "push", "execute", "cleanup", "log", "mark",
              "save_open", "save_dump"}

InProgress == {h \in Hosts : pc[h] \in WorkerPcs}

Queued == {h \in Hosts : pc[h] = "queued"}

Finished == {h \in Hosts : pc[h] \in {"returned", "raised"}}

Collected == {h \in Hosts : pc[h] = "collected"}

\* ------------------------------------------------------------------------
\* Initial state: first process start, no state file
\* ------------------------------------------------------------------------

Init ==
    /\ main_pc = "parse_args"
    /\ dry_run = FALSE
    /\ check = FALSE
    /\ parallel = 1
    /\ use_github = FALSE
    /\ policy = NoPolicy
    /\ filtered = {}
    /\ devices = {}
    /\ mem = EmptyState
    /\ file = NoFile
    /\ lock = 0
    /\ snap = EmptyState
    /\ pc = [h \in Hosts |-> "idle"]
    /\ res = [h \in Hosts |-> "none"]
    /\ fault = [h \in Hosts |-> FALSE]
    /\ touched = [h \in Hosts |-> FALSE]
    /\ results = EmptyBag
    /\ exit_code = NoExit
    /\ exit_class = "running"
    /\ fileAtStart = NoFile
    /\ prevOutcome = [h \in Hosts |-> "none"]
    /\ trace = [h \in Hosts |-> << >>]
    /\ tracing = FALSE
    /\ call = NoCall
    /\ deployment_result = NoResult
    /\ state_entry = NoEntry

\* sys.exit(code), or the end of main()
Exit(code, class) ==
    /\ main_pc' = "exited"
    /\ exit_code' = code
    /\ exit_class' = class

Goto(p) ==
    /\ main_pc' = p
    /\ UNCHANGED <<exit_code, exit_class>>

\* ------------------------------------------------------------------------
\* main(), steps 1 to 11
\* ------------------------------------------------------------------------

\* parse_args()
ParseArgs ==
    /\ main_pc = "parse_args"
    /\ \E req \in RequestedParallel, dr \in BOOLEAN, ck \in BOOLEAN :
        /\ parallel' = Clamp(req)
        /\ dry_run' = dr
        /\ check' = ck
    /\ Goto("token")
    /\ UNCHANGED <<use_github, policy, filtered, devices, storeVars,
                   hostVars, results, histVars>>

\* step 1: the token prompt; getpass may end in EOF or an interrupt
GetToken ==
    /\ main_pc = "token"
    /\ \E has_token \in BOOLEAN, aborted \in BOOLEAN :
        IF ~has_token /\ ~dry_run /\ ~check /\ aborted
        THEN Exit(ExitAborted, "aborted")
        ELSE Goto("prerequisites")
    /\ UNCHANGED <<argVars, use_github, policy, filtered, devices,
                   storeVars, hostVars, results, histVars>>

\* step 2: check_prerequisites(dry_run)
CheckPrerequisites ==
    /\ main_pc = "prerequisites"
    /\ \E sshpass \in BOOLEAN, ssh \in BOOLEAN, scp \in BOOLEAN :
        IF ~dry_run /\ (~sshpass \/ ~ssh \/ ~scp)
        THEN Exit(ExitConfigError, "config_error")
        ELSE Goto("inventory")
    /\ UNCHANGED <<argVars, use_github, policy, filtered, devices,
                   storeVars, hostVars, results, histVars>>

\* step 3: the inventory file and parse_inventory; valid is the set of
\* rows that pass Device.validate
ParseInventory ==
    /\ main_pc = "inventory"
    /\ \E exists \in BOOLEAN, valid \in SUBSET Hosts :
        IF ~exists \/ valid = {}
        THEN /\ Exit(ExitConfigError, "config_error")
             /\ UNCHANGED devices
        ELSE /\ Goto("filter_device")
             /\ devices' = valid
    /\ UNCHANGED <<argVars, use_github, policy, filtered, storeVars,
                   hostVars, results, histVars>>

\* step 4, args.device
FilterDevice ==
    /\ main_pc = "filter_device"
    /\ \E name \in Hosts \cup {NoDevice} :
        IF name = NoDevice
        THEN /\ Goto("filter_platform")
             /\ UNCHANGED devices
        ELSE LET kept == {d \in devices : d = name} IN
             /\ devices' = kept
             /\ IF kept = {}
                THEN Exit(ExitConfigError, "config_error")
                ELSE Goto("filter_platform")
    /\ UNCHANGED <<argVars, use_github, policy, filtered, storeVars,
                   hostVars, results, histVars>>

\* mutant: connectivity of the loaded devices is tested before the
\* platform filter is applied
FilterPlatformAfterProbe ==
    /\ main_pc = "filter_platform"
    /\ touched' = [h \in Hosts |-> h \in devices]
    /\ \E p \in VALID_PLATFORMS \cup {NoPlatform} :
        IF p = NoPlatform
        THEN /\ Goto("load_state")
             /\ UNCHANGED devices
        ELSE LET kept == {d \in devices : PlatformOf(d) = p} IN
             /\ devices' = kept
             /\ IF kept = {}
                THEN Exit(ExitConfigError, "config_error")
                ELSE Goto("load_state")
    /\ UNCHANGED <<argVars, use_github, policy, filtered, storeVars,
                   pc, res, fault, trace, results, histVars>>

\* step 4, args.platform
FilterPlatform ==
    /\ main_pc = "filter_platform"
    /\ \E p \in VALID_PLATFORMS \cup {NoPlatform} :
        IF p = NoPlatform
        THEN /\ Goto("load_state")
             /\ UNCHANGED devices
        ELSE LET kept == {d \in devices : PlatformOf(d) = p} IN
             /\ devices' = kept
             /\ IF kept = {}
                THEN Exit(ExitConfigError, "config_error")
                ELSE Goto("load_state")
    /\ UNCHANGED <<argVars, use_github, policy, filtered, storeVars,
                   hostVars, results, histVars>>

\* step 5: state = StateManager(args.state_file)
LoadState ==
    /\ main_pc = "load_state"
    /\ mem' = Load(file)
    /\ filtered' = devices
    /\ Goto("policy")
    /\ UNCHANGED <<argVars, use_github, policy, devices, file, lock, snap,
                   hostVars, results, histVars>>

\* the list comprehension of --resume
ResumeSelect(ds, m) == {d \in ds : GetStatus(m, d) # "success"}

\* mutant: --retry-failed keeps every device that has not succeeded
RetrySelectNotSuccess(ds, m) == {d \in ds : GetStatus(m, d) # "success"}

\* the list comprehension of --retry-failed
RetrySelect(ds, m) == {d \in ds : GetStatus(m, d) = "failed"}

\* step 5: "if args.resume: ... elif args.retry_failed: ..." and the
\* "if not devices" that follows; args.force is not read
ApplyPolicy ==
    /\ main_pc = "policy"
    /\ \E r \in BOOLEAN, rf \in BOOLEAN, f \in BOOLEAN :
        /\ policy' = [resume |-> r, retry_failed |-> rf, force |-> f]
        /\ IF r
           THEN LET kept == ResumeSelect(devices, mem) IN
                /\ devices' = kept
                /\ IF kept = {}
                   THEN Exit(ExitSuccess, "no_devices")
                   ELSE Goto("check_mode")
           ELSE IF rf
           THEN LET kept == RetrySelect(devices, mem) IN
                /\ devices' = kept
                /\ IF kept = {}
                   THEN Exit(ExitSuccess, "no_failed")
                   ELSE Goto("check_mode")
           ELSE /\ UNCHANGED devices
                /\ Goto("check_mode")
    /\ UNCHANGED <<argVars, use_github, filtered, storeVars, hostVars,
                   results, histVars>>

\* steps 6 and 7: ssh is None under --dry-run, so run_connectivity_checks
\* raises AttributeError on the first device; otherwise it probes every
\* device and the process exits
CheckMode ==
    /\ main_pc = "check_mode"
    /\ IF check /\ dry_run
       THEN /\ Exit(ExitCrash, "crash")
            /\ UNCHANGED touched
       ELSE IF check
       THEN /\ touched' = [h \in Hosts |-> h \in devices]
            /\ Exit(ExitSuccess, "check")
       ELSE /\ Goto("dry_run")
            /\ UNCHANGED touched
    /\ UNCHANGED <<argVars, use_github, policy, filtered, devices,
                   storeVars, pc, res, fault, trace, results, histVars>>

\* mutant: the dry-run preview tests the connectivity of every device
DryRunProbes ==
    /\ main_pc = "dry_run"
    /\ IF dry_run
       THEN /\ touched' = [h \in Hosts |-> h \in devices]
            /\ Exit(ExitSuccess, "dry_run")
       ELSE /\ Goto("confirm")
            /\ UNCHANGED touched
    /\ UNCHANGED <<argVars, use_github, policy, filtered, devices,
                   storeVars, pc, res, fault, trace, results, histVars>>

\* steps 8 and 9: the plan and the dry-run preview
DryRun ==
    /\ main_pc = "dry_run"
    /\ IF dry_run
       THEN Exit(ExitSuccess, "dry_run")
       ELSE Goto("confirm")
    /\ UNCHANGED <<argVars, use_github, policy, filtered, devices,
                   storeVars, hostVars, results, histVars>>

\* step 10: the confirmation prompt of a multi-device deployment
Confirm ==
    /\ main_pc = "confirm"
    /\ \E yes \in BOOLEAN :
        IF Cardinality(devices) > 1 /\ ~yes
        THEN Exit(ExitSuccess, "declined")
        ELSE Goto("deploy")
    /\ UNCHANGED <<argVars, use_github, policy, filtered, devices,
                   storeVars, hostVars, results, histVars>>

\* ------------------------------------------------------------------------
\* main(), step 12: deploy
\* ------------------------------------------------------------------------

\* "results = []"; with args.parallel > 1 every device is submitted to the
\* pool, otherwise the loop will call deploy_and_record device by device
StartDeploy ==
    /\ main_pc = "deploy"
    /\ \E gh \in BOOLEAN : use_github' = gh
    /\ results' = EmptyBag
    /\ pc' = [h \in Hosts |-> IF h \in devices THEN "queued" ELSE "idle"]
    /\ policy' = NoPolicy
    /\ filtered' = {}
    /\ fileAtStart' = [fileAtStart EXCEPT !.map =
                        [h \in Hosts |-> IF h \in devices THEN "absent"
                                         ELSE fileAtStart.map[h]]]
    /\ prevOutcome' = [h \in Hosts |-> "none"]
    /\ Goto("running")
    /\ UNCHANGED <<argVars, devices, storeVars, res, fault, touched, trace,
                   tracing, msgVars>>

\* sequential loop: the call of deploy_and_record for the next device
SeqCall(h) ==
    /\ main_pc = "running"
    /\ ~(parallel > 1)
    /\ Queued # {}
    /\ h = Min(Queued)
    /\ InProgress = {}
    /\ Finished = {}
    /\ pc' = [pc EXCEPT ![h] = "probe"]
    /\ UNCHANGED <<main_pc, exit_code, exit_class, argVars, use_github,
                   policy, filtered, devices, storeVars, res, fault,
                   touched, trace, results, histVars>>

\* ThreadPoolExecutor(max_workers = args.parallel): a free worker thread
\* takes the next work item of the queue
WorkerTake(h) ==
    /\ main_pc = "running"
    /\ parallel > 1
    /\ Queued # {}
    /\ h = Min(Queued)
    /\ Cardinality(InProgress) < parallel
    /\ pc' = [pc EXCEPT ![h] = "probe"]
    /\ UNCHANGED <<main_pc, exit_code, exit_class, argVars, use_github,
                   policy, filtered, devices, storeVars, res, fault,
                   touched, trace, results, histVars>>

\* ------------------------------------------------------------------------
\* deploy_and_record(device, ...) of host h: deploy_device, then
\* state.mark_success / state.mark_failed
\* ------------------------------------------------------------------------

\* history: step e of the call of host h is added to its trace
Traced(h, e) ==
    IF tracing THEN [trace EXCEPT ![h] = Append(@, e)] ELSE trace

workerFrame == <<main_pc, exit_code, exit_class, argVars, use_github,
                 policy, filtered, devices, results, histVars>>

\* mutant: the install command is run right after the probe, in local
\* mode too
ProbeSkipsPush(h) ==
    /\ pc[h] = "probe"
    /\ touched' = [touched EXCEPT ![h] = TRUE]
    /\ \E reachable \in BOOLEAN :
        IF reachable
        THEN /\ pc' = [pc EXCEPT ![h] = "execute"]
             /\ UNCHANGED res
             /\ trace' = Traced(h, "probe_ok")
        ELSE /\ pc' = [pc EXCEPT ![h] = "log"]
             /\ res' = [res EXCEPT ![h] = "failed"]
             /\ trace' = Traced(h, "probe_unreachable")
    /\ UNCHANGED <<workerFrame, storeVars, fault>>

\* deploy_device step 1: ssh.test_connectivity, which catches every
\* exception
Probe(h) ==
    /\ pc[h] = "probe"
    /\ touched' = [touched EXCEPT ![h] = TRUE]
    /\ \E reachable \in BOOLEAN :
        IF reachable
        THEN /\ pc' = [pc EXCEPT ![h] =
                        IF use_github THEN "execute" ELSE "push"]
             /\ UNCHANGED res
             /\ trace' = Traced(h, "probe_ok")
        ELSE /\ pc' = [pc EXCEPT ![h] = "log"]
             /\ res' = [res EXCEPT ![h] = "failed"]
             /\ trace' = Traced(h, "probe_unreachable")
    /\ UNCHANGED <<workerFrame, storeVars, fault>>

\* mutant: the "return" after a failed transfer is missing, the install
\* command is run all the same
PushNoReturn(h) ==
    /\ pc[h] = "push"
    /\ \E local_exists \in BOOLEAN, scp \in {"zero", "nonzero", "raise"} :
        IF ~local_exists
        THEN /\ pc' = [pc EXCEPT ![h] = "log"]
             /\ res' = [res EXCEPT ![h] = "failed"]
             /\ UNCHANGED fault
             /\ trace' = Traced(h, "script_missing")
        ELSE IF scp = "raise"
        THEN /\ pc' = [pc EXCEPT ![h] = "raised"]
             /\ fault' = [fault EXCEPT ![h] = TRUE]
             /\ UNCHANGED res
             /\ trace' = Traced(h, "push_raise")
        ELSE /\ pc' = [pc EXCEPT ![h] = "execute"]
             /\ UNCHANGED <<res, fault>>
             /\ trace' = Traced(h, IF scp = "zero" THEN "push_zero"
                                   ELSE "push_nonzero")
    /\ UNCHANGED <<workerFrame, storeVars, touched>>

\* local mode: os.path.exists(local_script), then ssh.scp_file, which
\* raises subprocess.TimeoutExpired (or OSError) instead of returning
Push(h) ==
    /\ pc[h] = "push"
    /\ \E local_exists \in BOOLEAN, scp \in {"zero", "nonzero", "raise"} :
        IF ~local_exists \/ scp = "nonzero"
        THEN /\ pc' = [pc EXCEPT ![h] = "log"]
             /\ res' = [res EXCEPT ![h] = "failed"]
             /\ UNCHANGED fault
             /\ trace' = Traced(h, IF ~local_exists THEN "script_missing"
                                   ELSE "push_nonzero")
        ELSE IF scp = "raise"
        THEN /\ pc' = [pc EXCEPT ![h] = "raised"]
             /\ fault' = [fault EXCEPT ![h] = TRUE]
             /\ UNCHANGED res
             /\ trace' = Traced(h, "push_raise")
        ELSE /\ pc' = [pc EXCEPT ![h] = "execute"]
             /\ UNCHANGED <<res, fault>>
             /\ trace' = Traced(h, "push_zero")
    /\ UNCHANGED <<workerFrame, storeVars, touched>>

\* mutant: every exit code of the install command counts as a success
ExecuteAnyExit(h) ==
    /\ pc[h] = "execute"
    /\ \E run \in {"zero", "nonzero", "raise"} :
        IF run = "raise"
        THEN /\ pc' = [pc EXCEPT ![h] = "raised"]
             /\ fault' = [fault EXCEPT ![h] = TRUE]
             /\ UNCHANGED res
             /\ trace' = Traced(h, "execute_raise")
        ELSE /\ pc' = [pc EXCEPT ![h] =
                        IF use_github THEN "log" ELSE "cleanup"]
             /\ res' = [res EXCEPT ![h] = "success"]
             /\ UNCHANGED fault
             /\ trace' = Traced(h, IF run = "zero" THEN "execute_zero"
                                   ELSE "execute_nonzero")
    /\ UNCHANGED <<workerFrame, storeVars, touched>>

\* ssh.ssh_run of the install command; result.returncode decides success
Execute(h) ==
    /\ pc[h] = "execute"
    /\ \E run \in {"zero", "nonzero", "raise"} :
        IF run = "raise"
        THEN /\ pc' = [pc EXCEPT ![h] = "raised"]
             /\ fault' = [fault EXCEPT ![h] = TRUE]
             /\ UNCHANGED res
             /\ trace' = Traced(h, "execute_raise")
        ELSE /\ pc' = [pc EXCEPT ![h] =
                        IF use_github THEN "log" ELSE "cleanup"]
             /\ res' = [res EXCEPT ![h] =
                        IF run = "zero" THEN "success" ELSE "failed"]
             /\ UNCHANGED fault
             /\ trace' = Traced(h, IF run = "zero" THEN "execute_zero"
                                   ELSE "execute_nonzero")
    /\ UNCHANGED <<workerFrame, storeVars, touched>>

\* mutant: the "rm -f" is not inside try / except, its exception leaves
\* deploy_device
CleanupNoExcept(h) ==
    /\ pc[h] = "cleanup"
    /\ \E rm \in {"zero", "nonzero", "raise"} :
        IF rm = "raise"
        THEN /\ pc' = [pc EXCEPT ![h] = "raised"]
             /\ fault' = [fault EXCEPT ![h] = TRUE]
             /\ trace' = Traced(h, "cleanup_raise")
        ELSE /\ pc' = [pc EXCEPT ![h] = "log"]
             /\ UNCHANGED fault
             /\ trace' = Traced(h, IF rm = "zero" THEN "cleanup_zero"
                                   ELSE "cleanup_nonzero")
    /\ UNCHANGED <<workerFrame, storeVars, res, touched>>

\* local mode: "rm -f" of the remote script inside try / except Exception
Cleanup(h) ==
    /\ pc[h] = "cleanup"
    /\ \E rm \in {"zero", "nonzero", "raise"} :
        /\ pc' = [pc EXCEPT ![h] = "log"]
        /\ trace' = Traced(h, IF rm = "zero" THEN "cleanup_zero"
                              ELSE IF rm = "nonzero" THEN "cleanup_nonzero"
                              ELSE "cleanup_raise")
    /\ UNCHANGED <<workerFrame, storeVars, res, fault, touched>>

\* write_log, called by deploy_device before each of its returns
WriteLog(h) ==
    /\ pc[h] = "log"
    /\ pc' = [pc EXCEPT ![h] = "mark"]
    /\ trace' = Traced(h, "log")
    /\ UNCHANGED <<workerFrame, storeVars, res, fault, touched>>

\* mark_success / mark_failed: the assignment self.state[device_name] = ...
Mark(h) ==
    /\ pc[h] = "mark"
    /\ mem' = [mem EXCEPT ![h] = res[h]]
    /\ pc' = [pc EXCEPT ![h] = "save_open"]
    /\ trace' = Traced(h, "mark")
    /\ UNCHANGED <<workerFrame, file, lock, snap, res, fault, touched>>

\* _save: "with self._lock" and open(self.state_file, "w"), which
\* truncates the file; json.dump starts to iterate the dict
SaveOpen(h) ==
    /\ pc[h] = "save_open"
    /\ lock = 0
    /\ lock' = h
    /\ file' = CorruptFile
    /\ snap' = mem
    /\ pc' = [pc EXCEPT ![h] = "save_dump"]
    /\ trace' = Traced(h, "save_open")
    /\ UNCHANGED <<workerFrame, mem, res, fault, touched>>

\* _save: json.dump ends and the file is closed, the lock is released.
\* json.dump(indent=2) iterates the dict in Python code, so an assignment
\* of another worker can run in between: a new key makes the iteration
\* raise RuntimeError, a changed value is written as it was or as it is.
\* write() and close() may raise OSError.
SaveDump(h) ==
    /\ pc[h] = "save_dump"
    /\ lock = h
    /\ lock' = 0
    /\ snap' = EmptyState
    /\ \E written \in BOOLEAN,
          m \in [Hosts -> Statuses] :
        /\ \A k \in Hosts : m[k] \in {snap[k], mem[k]}
        /\ IF Keys(mem) = Keys(snap) /\ written
           THEN /\ file' = GoodFile(m)
                /\ pc' = [pc EXCEPT ![h] = "returned"]
                /\ UNCHANGED fault
                /\ trace' = Traced(h, "save_written")
           ELSE /\ file' = CorruptFile
                /\ pc' = [pc EXCEPT ![h] = "raised"]
                /\ fault' = [fault EXCEPT ![h] = TRUE]
                /\ trace' = Traced(h, IF Keys(mem) = Keys(snap)
                                      THEN "save_oserror"
                                      ELSE "save_runtimeerror")
    /\ UNCHANGED <<workerFrame, mem, res, touched>>

\* ------------------------------------------------------------------------
\* main(), step 12: collecting the results, and step 13
\* ------------------------------------------------------------------------

\* the result of the try / except Exception around the call
Outcome(h) ==
    IF pc[h] = "raised"
    THEN Result(h, FALSE, "unexpected")
    ELSE Result(h, res[h] = "success",
                IF res[h] = "success" THEN "none" ELSE "diagnostic")

Append1(bag, r) == bag (+) SetToBag({r})

collectFrame == <<main_pc, exit_code, exit_class, argVars, use_github,
                  policy, filtered, devices, storeVars, res, fault, touched,
                  fileAtStart, tracing, msgVars>>

\* mutant: the loop has no "except Exception", a raising call ends main()
SeqCollectNoExcept(h) ==
    /\ main_pc = "running"
    /\ ~(parallel > 1)
    /\ pc[h] \in {"returned", "raised"}
    /\ IF pc[h] = "raised"
       THEN /\ Exit(ExitCrash, "crash")
            /\ UNCHANGED <<results, prevOutcome, pc>>
       ELSE /\ results' = Append1(results, Outcome(h))
            /\ prevOutcome' = [prevOutcome EXCEPT ![h] =
                        IF Outcome(h).success THEN "success" ELSE "failed"]
            /\ pc' = [pc EXCEPT ![h] = "collected"]
            /\ UNCHANGED <<main_pc, exit_code, exit_class>>
    /\ UNCHANGED <<argVars, use_github, policy, filtered, devices,
                   storeVars, res, fault, touched, fileAtStart, trace,
                   tracing, msgVars>>

\* mutant: future.result() is called outside a try, a raising worker ends
\* main()
ParCollectNoExcept(h) ==
    /\ main_pc = "running"
    /\ parallel > 1
    /\ pc[h] \in {"returned", "raised"}
    /\ IF pc[h] = "raised"
       THEN /\ Exit(ExitCrash, "crash")
            /\ UNCHANGED <<results, prevOutcome, pc>>
       ELSE /\ results' = Append1(results, Outcome(h))
            /\ prevOutcome' = [prevOutcome EXCEPT ![h] =
                        IF Outcome(h).success THEN "success" ELSE "failed"]
            /\ pc' = [pc EXCEPT ![h] = "collected"]
            /\ UNCHANGED <<main_pc, exit_code, exit_class>>
    /\ UNCHANGED <<argVars, use_github, policy, filtered, devices,
                   storeVars, res, fault, touched, fileAtStart, trace,
                   tracing, msgVars>>

\* sequential loop: except Exception, results.append(result)
SeqCollect(h) ==
    /\ main_pc = "running"
    /\ ~(parallel > 1)
    /\ pc[h] \in {"returned", "raised"}
    /\ results' = Append1(results, Outcome(h))
    /\ prevOutcome' = [prevOutcome EXCEPT ![h] =
                        IF Outcome(h).success THEN "success" ELSE "failed"]
    /\ pc' = [pc EXCEPT ![h] = "collected"]
    /\ trace' = Traced(h, "collect")
    /\ UNCHANGED collectFrame

\* as_completed loop: future.result(), except Exception,
\* results.append(result)
ParCollect(h) ==
    /\ main_pc = "running"
    /\ parallel > 1
    /\ pc[h] \in {"returned", "raised"}
    /\ results' = Append1(results, Outcome(h))
    /\ prevOutcome' = [prevOutcome EXCEPT ![h] =
                        IF Outcome(h).success THEN "success" ELSE "failed"]
    /\ pc' = [pc EXCEPT ![h] = "collected"]
    /\ trace' = Traced(h, "collect")
    /\ UNCHANGED collectFrame

\* mutant: all() instead of any()
AllFailed(bag) == \A r \in BagToSet(bag) : ~r.success

\* any(not r.success for r in results)
AnyFailed(bag) == \E r \in BagToSet(bag) : ~r.success

\* step 13: summary and exit status, once the loop is over
Summary ==
    /\ main_pc = "running"
    /\ devices \subseteq Collected
    /\ IF AnyFailed(results)
       THEN Exit(ExitHostFailure, "host_failure")
       ELSE Exit(ExitSuccess, "all_succeeded")
    /\ UNCHANGED <<argVars, use_github, policy, filtered, devices,
                   storeVars, hostVars, results, histVars>>

\* the next invocation of the script: a new process, the same state file
NewRun ==
    /\ main_pc = "exited"
    /\ main_pc' = "parse_args"
    /\ dry_run' = FALSE
    /\ check' = FALSE
    /\ parallel' = 1
    /\ use_github' = FALSE
    /\ policy' = NoPolicy
    /\ filtered' = {}
    /\ devices' = {}
    /\ mem' = EmptyState
    /\ lock' = 0
    /\ snap' = EmptyState
    /\ pc' = [h \in Hosts |-> "idle"]
    /\ res' = [h \in Hosts |-> "none"]
    /\ fault' = [h \in Hosts |-> FALSE]
    /\ touched' = [h \in Hosts |-> FALSE]
    /\ results' = EmptyBag
    /\ exit_code' = NoExit
    /\ exit_class' = "running"
    /\ fileAtStart' = file
    /\ trace' = [h \in Hosts |-> << >>]
    /\ UNCHANGED <<file, prevOutcome, tracing, msgVars>>

Worker(h) ==
    \/ Probe(h)
    \/ Push(h)
    \/ Execute(h)
    \/ Cleanup(h)
    \/ WriteLog(h)
    \/ Mark(h)
    \/ SaveOpen(h)
    \/ SaveDump(h)

Next ==
    \/ ParseArgs
    \/ GetToken
    \/ CheckPrerequisites
    \/ ParseInventory
    \/ FilterDevice
    \/ FilterPlatform
    \/ LoadState
    \/ ApplyPolicy
    \/ CheckMode
    \/ DryRun
    \/ Confirm
    \/ StartDeploy
    \/ \E h \in Hosts : SeqCall(h)
    \/ \E h \in Hosts : WorkerTake(h)
    \/ \E h \in Hosts : Worker(h)
    \/ \E h \in Hosts : SeqCollect(h)
    \/ \E h \in Hosts : ParCollect(h)
    \/ Summary
    \/ NewRun

Spec == Init /\ [][Next]_vars

\* ------------------------------------------------------------------------
\* The deploy step of a first run, with the trace of every call
\* ------------------------------------------------------------------------

\* main() has reached step 12 in a first run (no state file) without a
\* policy flag: any selection of hosts, --parallel 1 to TracedPool
InitDeploy ==
    /\ main_pc = "deploy"
    /\ dry_run = FALSE
    /\ check = FALSE
    /\ parallel \in MinParallel..TracedPool
    /\ use_github = FALSE
    /\ policy = NoPolicy
    /\ devices \in SUBSET Hosts \ {{}}
    /\ filtered = devices
    /\ mem = Load(NoFile)
    /\ file = NoFile
    /\ lock = 0
    /\ snap = EmptyState
    /\ pc = [h \in Hosts |-> "idle"]
    /\ res = [h \in Hosts |-> "none"]
    /\ fault = [h \in Hosts |-> FALSE]
    /\ touched = [h \in Hosts |-> FALSE]
    /\ results = EmptyBag
    /\ exit_code = NoExit
    /\ exit_class = "running"
    /\ fileAtStart = NoFile
    /\ prevOutcome = [h \in Hosts |-> "none"]
    /\ trace = [h \in Hosts |-> << >>]
    /\ tracing = TRUE
    /\ call = NoCall
    /\ deployment_result = NoResult
    /\ state_entry = NoEntry

NextDeploy ==
    \/ StartDeploy
    \/ \E h \in Hosts : SeqCall(h)
    \/ \E h \in Hosts : WorkerTake(h)
    \/ \E h \in Hosts : Worker(h)
    \/ \E h \in Hosts : SeqCollect(h)
    \/ \E h \in Hosts : ParCollect(h)
    \/ Summary

SpecDeploy == InitDeploy /\ [][NextDeploy]_vars

\* ------------------------------------------------------------------------
\* Step 5 of main() on a state file of any content (SpecLoad)
\* ------------------------------------------------------------------------

\* what the value of a host's key can be in a JSON object: no key, an
\* object with status success or failed, an object without "status", a
\* falsy value (null, {}, "", 0, []), a truthy value that is no object
EntryShapes ==
    {"absent", "success", "failed", "no_status", "falsy", "not_object"}

\* a JSON document: an object with an entry per host, or another value
JsonObject(entries) == [top |-> "object", entries |-> entries]
JsonOther == [top |-> "other", entries |-> [h \in Hosts |-> "absent"]]
EmptyObject == JsonObject([h \in Hosts |-> "absent"])

\* the contents of the state file: no file, a file open() refuses
\* (OSError), bytes that are no text in the default encoding, text that
\* is no JSON, and JSON documents
RawFiles ==
    {[kind |-> k, doc |-> EmptyObject] :
        k \in {"absent", "unreadable", "not_text", "not_json"}}
    \cup {[kind |-> "json", doc |-> JsonOther]}
    \cup {[kind |-> "json", doc |-> JsonObject(e)] :
            e \in [Hosts -> EntryShapes]}

\* _load: os.path.exists, open, json.load;
\* "except (json.JSONDecodeError, IOError): pass" and "return {}".
\* UnicodeDecodeError is a ValueError that is no JSONDecodeError.
LoadRaw(f) ==
    IF f.kind = "json" THEN [raised |-> FALSE, state |-> f.doc]
    ELSE IF f.kind = "not_text" THEN [raised |-> TRUE, state |-> EmptyObject]
    ELSE [raised |-> FALSE, state |-> EmptyObject]

\* get_status: "entry = self.state.get(device_name)" and
\* "return entry.get("status") if entry else None"; "raise" is the
\* AttributeError of .get on a value that is no dict
GetStatusRaw(state, h) ==
    IF state.top # "object" THEN "raise"
    ELSE IF state.entries[h] \in {"absent", "falsy"} THEN "absent"
    ELSE IF state.entries[h] = "not_object" THEN "raise"
    ELSE IF state.entries[h] = "no_status" THEN "absent"
    ELSE state.entries[h]

\* main() is at step 5 with some devices left by the filters; the state
\* file has any content
InitLoad ==
    /\ main_pc = "load_state"
    /\ dry_run = FALSE
    /\ check = FALSE
    /\ parallel = 1
    /\ use_github = FALSE
    /\ policy = NoPolicy
    /\ devices \in SUBSET Hosts \ {{}}
    /\ filtered = {}
    /\ mem = EmptyObject
    /\ file \in RawFiles
    /\ lock = 0
    /\ snap = EmptyState
    /\ pc = [h \in Hosts |-> "idle"]
    /\ res = [h \in Hosts |-> "none"]
    /\ fault = [h \in Hosts |-> FALSE]
    /\ touched = [h \in Hosts |-> FALSE]
    /\ results = EmptyBag
    /\ exit_code = NoExit
    /\ exit_class = "running"
    /\ fileAtStart = NoFile
    /\ prevOutcome = [h \in Hosts |-> "none"]
    /\ trace = [h \in Hosts |-> << >>]
    /\ tracing = FALSE
    /\ call = NoCall
    /\ deployment_result = NoResult
    /\ state_entry = NoEntry

\* step 5: state = StateManager(args.state_file); an exception of _load
\* is not caught by main()
LoadStateRaw ==
    /\ main_pc = "load_state"
    /\ LET r == LoadRaw(file) IN
        IF r.raised
        THEN /\ Exit(ExitCrash, "crash")
             /\ UNCHANGED <<mem, filtered>>
        ELSE /\ mem' = r.state
             /\ filtered' = devices
             /\ Goto("policy")
    /\ UNCHANGED <<argVars, use_github, policy, devices, file, lock, snap,
                   hostVars, results, histVars>>

\* step 5: the list comprehensions of --resume and --retry-failed call
\* state.get_status for every device; an exception is not caught
ApplyPolicyRaw ==
    /\ main_pc = "policy"
    /\ \E r \in BOOLEAN, rf \in BOOLEAN, f \in BOOLEAN :
        /\ policy' = [resume |-> r, retry_failed |-> rf, force |-> f]
        /\ IF (r \/ rf) /\ \E d \in devices : GetStatusRaw(mem, d) = "raise"
           THEN /\ Exit(ExitCrash, "crash")
                /\ UNCHANGED devices
           ELSE IF r
           THEN LET kept == {d \in devices :
                                GetStatusRaw(mem, d) # "success"} IN
                /\ devices' = kept
                /\ IF kept = {}
                   THEN Exit(ExitSuccess, "no_devices")
                   ELSE Goto("check_mode")
           ELSE IF rf
           THEN LET kept == {d \in devices :
                                GetStatusRaw(mem, d) = "failed"} IN
                /\ devices' = kept
                /\ IF kept = {}
                   THEN Exit(ExitSuccess, "no_failed")
                   ELSE Goto("check_mode")
           ELSE /\ UNCHANGED devices
                /\ Goto("check_mode")
    /\ UNCHANGED <<argVars, use_github, filtered, storeVars, hostVars,
                   results, histVars>>

NextLoad ==
    \/ LoadStateRaw
    \/ ApplyPolicyRaw

SpecLoad == InitLoad /\ [][NextLoad]_vars

\* ------------------------------------------------------------------------
\* The error message of one deploy_and_record call (SpecMessage)
\* ------------------------------------------------------------------------

\* A text is a sequence of characters.  Characters are numbers: Blank is a
\* whitespace character, LiteralChar a character of a string literal of
\* the program, and i > 0 the i-th non-blank character of a captured text.
Blank == 0
LiteralChar == 0 - 1

\* a string literal of n characters
Lit(n) == [i \in 1..n |-> LiteralChar]

\* captured texts: blanks, n distinct non-blank characters, blanks
Blanks(n) == [i \in 1..n |-> Blank]
Body(n) == [i \in 1..n |-> i]
BodyLengths == (0..Excess) \cup ((ErrorLimit - Excess)..(ErrorLimit + Excess))
Texts ==
    {Blanks(a) \o Body(n) \o Blanks(b) :
        a \in 0..MaxBlank, b \in 0..MaxBlank, n \in BodyLengths}

\* str.strip()
Strip(s) ==
    LET solid == {i \in DOMAIN s : s[i] # Blank} IN
    IF solid = {} THEN << >>
    ELSE SubSeq(s, CHOOSE i \in solid : \A j \in solid : i <= j,
                   CHOOSE i \in solid : \A j \in solid : i >= j)

\* s[-n:]
LastChars(s, n) ==
    IF Len(s) > n THEN SubSeq(s, Len(s) - n + 1, Len(s)) ELSE s

\* s[:n]
FirstChars(s, n) == IF Len(s) > n THEN SubSeq(s, 1, n) ELSE s

\* "..."
Ellipsis == Lit(3)

\* "Script exited with non-zero status"
GenericMessage == Lit(34)

\* mutant: the head of the error stream is kept, not its tail
ErrorMessageHead(stderr) ==
    LET error == Strip(stderr)
        cut == IF Len(error) > ErrorLimit
               THEN Ellipsis \o FirstChars(error, ErrorLimit)
               ELSE error
    IN IF cut = << >> THEN GenericMessage ELSE cut

\* deploy_device, returncode # 0: error = result.stderr.strip(), the cut to
\* the last 200 characters, the substitute for an empty error
ErrorMessage(stderr) ==
    LET error == Strip(stderr)
        cut == IF Len(error) > ErrorLimit
               THEN Ellipsis \o LastChars(error, ErrorLimit)
               ELSE error
    IN IF cut = << >> THEN GenericMessage ELSE cut

\* mutant: the message of a failed transfer is the error stream of scp
ScpMessageBare(stderr) == Strip(stderr)

\* f"SCP failed: {scp_result.stderr.strip()}"
ScpMessage(stderr) == Lit(12) \o Strip(stderr)

\* test_connectivity: f"SSH failed: {stderr or 'unknown error'}" with
\* stderr = result.stderr.strip(), "SSH connection timed out",
\* f"SSH error: {e}"
ProbeMessage(path, text) ==
    IF path = "unreachable"
    THEN Lit(12) \o (IF Strip(text) # << >> THEN Strip(text) ELSE Lit(13))
    ELSE IF path = "probe_timeout" THEN Lit(24)
    ELSE Lit(11) \o text

\* f"Local script not found: {local_script}"; the path is the text
MissingMessage(text) == Lit(24) \o text

\* f"Unexpected error: {e}"
UnexpectedMessage(text) == Lit(18) \o text

\* the ways through deploy_and_record: the probe fails (three ways), the
\* local script is missing, scp fails, the install command exits with
\* non-zero or zero, scp_file or ssh_run raises
Paths ==
    {"unreachable", "probe_timeout", "probe_error", "script_missing",
     "scp_failed", "exit_nonzero", "exit_zero", "raised"}

\* error_message of the DeploymentResult deploy_device returns
FailureMessage(path, text) ==
    IF path \in {"unreachable", "probe_timeout", "probe_error"}
    THEN ProbeMessage(path, text)
    ELSE IF path = "script_missing" THEN MissingMessage(text)
    ELSE IF path = "scp_failed" THEN ScpMessage(text)
    ELSE ErrorMessage(text)

mainVars == <<main_pc, exit_code, exit_class, argVars, use_github, policy,
              filtered, devices, storeVars, hostVars, results, fileAtStart,
              prevOutcome, tracing>>

\* main() is in the deploy step and calls deploy_and_record for a device;
\* the call takes any path with any captured text
InitMessage ==
    /\ main_pc = "running"
    /\ dry_run = FALSE
    /\ check = FALSE
    /\ parallel = 1
    /\ use_github = FALSE
    /\ policy = NoPolicy
    /\ devices = {}
    /\ filtered = {}
    /\ mem = EmptyState
    /\ file = NoFile
    /\ lock = 0
    /\ snap = EmptyState
    /\ pc = [h \in Hosts |-> "idle"]
    /\ res = [h \in Hosts |-> "none"]
    /\ fault = [h \in Hosts |-> FALSE]
    /\ touched = [h \in Hosts |-> FALSE]
    /\ results = EmptyBag
    /\ exit_code = NoExit
    /\ exit_class = "running"
    /\ fileAtStart = NoFile
    /\ prevOutcome = [h \in Hosts |-> "none"]
    /\ trace = [h \in Hosts |-> << >>]
    /\ tracing = FALSE
    /\ call \in [path : Paths, text : Texts, stage : {"start"}]
    /\ deployment_result = NoResult
    /\ state_entry = NoEntry

\* deploy_device: it returns a DeploymentResult, or an exception of
\* scp_file / ssh_run leaves it
DeployDevice ==
    /\ call.stage = "start"
    /\ IF call.path = "raised"
       THEN /\ call' = [call EXCEPT !.stage = "raised"]
            /\ UNCHANGED deployment_result
       ELSE /\ call' = [call EXCEPT !.stage = "returned"]
            /\ deployment_result' =
                [returned |-> TRUE,
                 success |-> call.path = "exit_zero",
                 error_message |->
                    IF call.path = "exit_zero" THEN << >>
                    ELSE FailureMessage(call.path, call.text)]
    /\ UNCHANGED <<mainVars, state_entry>>

\* deploy_and_record: state.mark_success(name) or
\* state.mark_failed(name, result.error_message); _save may raise
RecordResult ==
    /\ call.stage = "returned"
    /\ state_entry' =
        IF deployment_result.success
        THEN [status |-> "success", error |-> << >>]
        ELSE [status |-> "failed",
              error |-> deployment_result.error_message]
    /\ \E saved \in BOOLEAN :
        call' = [call EXCEPT !.stage = IF saved THEN "recorded" ELSE "raised"]
    /\ UNCHANGED <<mainVars, deployment_result>>

\* main(): results.append(result), with the result of "except Exception"
\* when the call raised
CollectResult ==
    /\ call.stage \in {"recorded", "raised"}
    /\ deployment_result' =
        IF call.stage = "raised"
        THEN [returned |-> TRUE, success |-> FALSE,
              error_message |-> UnexpectedMessage(call.text)]
        ELSE deployment_result
    /\ call' = [call EXCEPT !.stage = "collected"]
    /\ UNCHANGED <<mainVars, state_entry>>

NextMessage ==
    \/ DeployDevice
    \/ RecordResult
    \/ CollectResult

SpecMessage == InitMessage /\ [][NextMessage]_vars

\* ------------------------------------------------------------------------
\* Properties
\* ------------------------------------------------------------------------

\* the deploy step (step 12) was reached in this run
DeployReached == \E h \in Hosts : pc[h] # "idle"

\* number of entries of results for host h
OutcomesFor(h) ==
    LET S == {r \in BagToSet(results) : r.device = h} IN
    BagCardinality([r \in S |-> results[r]])

\* status a state entry must have for an outcome
StatusOf(success) == IF success THEN "success" ELSE "failed"

\* step 5 is over and the deploy step has not started: policy, filtered
\* and devices are those of the selection
Selected ==
    \/ main_pc \in {"check_mode", "dry_run", "confirm", "deploy"}
    \/ /\ main_pc = "exited"
       /\ exit_class \in {"no_devices", "no_failed", "check", "dry_run",
                          "declined", "crash"}
       /\ ~DeployReached

\* C1: when a run that reached the deploy step has returned, results
\* holds exactly one outcome for each selected host and none for any other
\* host, for every pool size and whichever hosts failed.
C1_OneOutcomePerHost ==
    (main_pc = "exited" /\ DeployReached) =>
        \A h \in Hosts : OutcomesFor(h) = IF h \in devices THEN 1 ELSE 0

\* a parallel run over all hosts has returned; the first host failed and
\* another host succeeded
C1_Witness ==
    /\ main_pc = "exited"
    /\ parallel = 2
    /\ devices = Hosts
    /\ BagCardinality(results) = NumHosts
    /\ \E r \in BagToSet(results) : r.device = 1 /\ ~r.success
    /\ \E r \in BagToSet(results) : r.device # 1 /\ r.success

\* C2: the state entry of every attempted host reflects the outcome of
\* its most recent attempt, also when the failure is a fault raised in the
\* worker: after a run, the file has status success for a host whose
\* outcome was a success and failed for a host whose outcome was a failure.
C2_StateReflectsOutcome ==
    main_pc = "exited" =>
        \A h \in Hosts :
            prevOutcome[h] # "none" =>
                file.ok /\ file.map[h] = prevOutcome[h]

\* C3: a fault raised in the worker of one host becomes the failed outcome
\* "Unexpected error" of that host only: every collected host without a
\* fault has the outcome its own deployment procedure returned, the run
\* ends only when every selected host has been attempted and collected.
C3_FaultContained ==
    /\ \A h \in Collected :
        /\ OutcomesFor(h) = 1
        /\ IF fault[h]
           THEN CopiesIn(Result(h, FALSE, "unexpected"), results) = 1
           ELSE CopiesIn(Result(h, res[h] = "success",
                                IF res[h] = "success" THEN "none"
                                ELSE "diagnostic"), results) = 1
    /\ (main_pc = "exited" /\ DeployReached) =>
        /\ devices \subseteq Collected
        /\ \A h \in devices : touched[h]
        /\ exit_class \in {"all_succeeded", "host_failure"}

\* a parallel run has returned in which one worker raised and another
\* host has its successful outcome
C3_Witness ==
    /\ main_pc = "exited"
    /\ parallel > 1
    /\ \E a \in devices, b \in devices :
        /\ fault[a]
        /\ res[a] = "none"
        /\ ~fault[b]
        /\ CopiesIn(Result(b, TRUE, "none"), results) = 1

\* C4: state is written through after each outcome: at every point of a
\* run each host whose outcome has been collected has an entry in the
\* state file that agrees with that outcome.
C4_WrittenThrough ==
    \A h \in Collected :
        \A r \in BagToSet(results) :
            r.device = h =>
                file.ok /\ file.map[h] = StatusOf(r.success)

\* C5: a resume run that follows a deploy step selects the filtered hosts
\* whose outcome there was a failure and none of the hosts whose outcome
\* was a success.
C5_ResumeSelection ==
    (Selected /\ policy.resume) =>
        /\ devices \subseteq filtered
        /\ \A h \in filtered :
            /\ prevOutcome[h] = "failed" => h \in devices
            /\ prevOutcome[h] = "success" => h \notin devices

\* C6: a retry-failed run selects exactly the filtered hosts whose entry
\* in the state file has status failed; when there is none it exits with
\* status 0, no host touched and the state file as it was.
C6_RetryFailedSelection ==
    (Selected /\ policy.retry_failed /\ ~policy.resume) =>
        LET want == {h \in filtered : fileAtStart.ok
                                      /\ fileAtStart.map[h] = "failed"} IN
        IF want = {}
        THEN /\ main_pc = "exited"
             /\ exit_code = 0
             /\ exit_class = "no_failed"
             /\ \A h \in Hosts : ~touched[h]
             /\ file = fileAtStart
        ELSE /\ devices = want
             /\ exit_class # "no_failed"

\* a retry-failed run has stopped with nothing to retry although the
\* filtered hosts have entries in the state file
C6_Witness ==
    /\ main_pc = "exited"
    /\ exit_class = "no_failed"
    /\ policy.retry_failed
    /\ \E h \in filtered : fileAtStart.map[h] = "success"

\* C7: a run that reached the deploy step exits with status 1 if and only
\* if the outcome of some selected host is a failure, and with status 0
\* when every outcome is a success.
C7_FailureDisposition ==
    (main_pc = "exited" /\ DeployReached) =>
        /\ exit_code = 1 <=> \E h \in devices : prevOutcome[h] = "failed"
        /\ exit_code = 0 <=> \A h \in devices : prevOutcome[h] = "success"

\* a run over all hosts has exited with status 1 with one failure only
C7_Witness ==
    /\ main_pc = "exited"
    /\ exit_code = 1
    /\ devices = Hosts
    /\ Cardinality({h \in devices : prevOutcome[h] = "failed"}) = 1
    /\ Cardinality({h \in devices : prevOutcome[h] = "success"})
        = NumHosts - 1

\* C8 as stated: the disposition of a run stopped by a configuration
\* error differs from the disposition of a run with a failed host (and
\* from success).
C8_ThreeDispositions ==
    exit_class = "config_error" =>
        exit_code \notin {ExitHostFailure, ExitSuccess}

\* C8 as amended: the exit status has two values, 0 for success (every
\* host succeeded, or no host selected by the policy) and 1 for a host
\* failure as well as for a configuration error.
C8_TwoDispositions ==
    main_pc = "exited" =>
        /\ exit_code \in {0, 1}
        /\ exit_class \in {"all_succeeded", "no_failed", "no_devices"}
            => exit_code = 0
        /\ exit_class = "host_failure" => exit_code = 1
        /\ exit_class = "config_error" => exit_code = 1
        /\ exit_class = "host_failure"
            <=> (DeployReached /\ \E h \in devices : prevOutcome[h] = "failed")

\* a run is stopped by a configuration error, the run before it had a
\* failed host: both exited with status 1
C8_Witness ==
    /\ exit_class = "config_error"
    /\ exit_code = 1
    /\ \E h \in Hosts : prevOutcome[h] = "failed"

\* C9: a configuration error stops the run before any remote operation
\* and before any write of the state file: no host is touched and the file
\* is the file the run started with, at the exit and at every step up to
\* the last configuration check.
C9_ConfigErrorBeforeAnyEffect ==
    (\/ exit_class = "config_error"
     \/ main_pc \in {"parse_args", "token", "prerequisites", "inventory",
                     "filter_device", "filter_platform"}) =>
        /\ \A h \in Hosts : ~touched[h] /\ pc[h] = "idle"
        /\ file = fileAtStart

\* a filter has left no device and stopped a run whose state file has
\* entries
C9_Witness ==
    /\ exit_class = "config_error"
    /\ devices = {}
    /\ \E h \in Hosts : file.map[h] # "absent"

\* C10: the effective bound is in 1..5 whatever was requested, it does
\* not change from parse_args to the exit, and at most that many
\* deploy_and_record calls are in progress; with bound 1 at most one.
C10_ConcurrencyBound ==
    /\ [](/\ parallel \in 1..5
          /\ Cardinality(InProgress) <= parallel)
    /\ [][main_pc \notin {"parse_args", "exited"} => parallel' = parallel]_vars

\* two workers of a pool of two are running while a third host waits
C10_Witness ==
    /\ parallel = 2
    /\ Cardinality(InProgress) = 2
    /\ Queued # {}

\* the record call (mark_success / mark_failed) of host h has returned to
\* deploy_and_record
RecordReturned(h) == pc[h] \in {"returned", "collected"} /\ ~fault[h]

\* C11: a record call is atomic with respect to the record calls of the
\* other workers: from the upsert of a worker to the end of its write of
\* the file no other worker upserts, and the map is not modified while a
\* worker holds the lock and writes it.
C11_RecordAtomic ==
    [][/\ lock # 0 => mem' = mem
       /\ \A a \in Hosts :
            pc[a] \in {"save_open", "save_dump"} =>
                \A b \in Hosts \ {a} : mem'[b] = mem[b]]_vars

\* C12: a record call is durable: when the run has exited, loading the
\* state file yields, for every host whose record call returned, the
\* status that call recorded.
C12_RecordDurable ==
    main_pc = "exited" =>
        \A h \in Hosts :
            RecordReturned(h) => GetStatus(Load(file), h) = res[h]

\* C13: the write of the state file is atomic with respect to a crash:
\* at every point of a run, the write of another entry included, loading
\* the file as it is yields the entry of every host whose record call has
\* returned.
C13_CrashAtomic ==
    \A h \in Hosts :
        RecordReturned(h) => GetStatus(Load(file), h) = res[h]

\* C17: whenever --force is given, or no policy flag at all, no host is
\* left out because of the state file: the selected hosts are the
\* filtered hosts, whatever other policy flag comes with --force.
C17_ForceSelectsAll ==
    (Selected /\ (policy.force \/ (~policy.resume /\ ~policy.retry_failed)))
        => devices = filtered

\* C14: loading fails soft: whatever the state file contains, _load and
\* the get_status calls of step 5 do not end the run with an exception; a
\* missing, unreadable or unparseable file is read as the empty map, and an
\* entry without a status as an absent one.
C14_LoadFailsSoft ==
    /\ exit_class # "crash"
    /\ main_pc # "load_state" =>
        /\ file.kind # "json" => mem = EmptyObject
        /\ \A h \in Hosts :
            mem.entries[h] = "no_status" => GetStatusRaw(mem, h) = "absent"

\* the steps host h's call has taken in this run, and how many of them
\* are in E
Events(h) == {trace[h][i] : i \in DOMAIN trace[h]}
Count(h, E) == Cardinality({i \in DOMAIN trace[h] : trace[h][i] \in E})

ProbeEvents == {"probe_ok", "probe_unreachable"}
PushEvents == {"push_zero", "push_nonzero", "push_raise"}
ExecuteEvents == {"execute_zero", "execute_nonzero", "execute_raise"}
CleanupEvents == {"cleanup_zero", "cleanup_nonzero", "cleanup_raise"}
SaveRaiseEvents == {"save_oserror", "save_runtimeerror"}

\* C15: every failure of a remote operation (probe, push, execute), a
\* timeout included, comes back as a returned result: no probe, push or
\* execute step raises an exception into deploy_device.
C15_RemoteFailureReturned ==
    \A h \in Hosts :
        Events(h) \cap {"push_raise", "execute_raise"} = {}

\* what a sequential run gives host h for the remote and disk behaviour
\* its trace shows
SeqOutcome(h) ==
    IF "execute_zero" \in Events(h) /\ "save_oserror" \notin Events(h)
    THEN "success" ELSE "failed"

\* the state file a sequential run leaves when no write of it fails
SeqFile ==
    GoodFile([h \in Hosts |-> IF "mark" \in Events(h) THEN res[h]
                              ELSE fileAtStart.map[h]])

\* the outcomes, the state file and the exit status are those of the
\* sequential run with the same behaviour of every host
AsSequential ==
    /\ \A h \in devices : prevOutcome[h] = SeqOutcome(h)
    /\ (\A h \in devices : "save_oserror" \notin Events(h)) => file = SeqFile
    /\ exit_code = IF \E h \in devices : SeqOutcome(h) = "failed"
                   THEN ExitHostFailure ELSE ExitSuccess

\* C16: a parallel run ends, in every interleaving, with the outcomes, the
\* state map and the exit status of the sequential run over the same
\* hosts with the same behaviour of each host.
C16_ParallelAsSequential ==
    (main_pc = "exited" /\ parallel > 1) => AsSequential

\* C18: the procedure ends at the first failed step and repeats nothing:
\* probe, push and execute happen at most once per host; after an
\* unreachable probe there is no push, execute or cleanup; after a missing
\* local script or a failed transfer no remote command is run.
C18_TerminalOnFirstFailure ==
    \A h \in Hosts :
        /\ Count(h, ProbeEvents) <= 1
        /\ Count(h, PushEvents) <= 1
        /\ Count(h, ExecuteEvents) <= 1
        /\ "probe_unreachable" \in Events(h) =>
            Events(h) \cap (PushEvents \cup ExecuteEvents
                            \cup CleanupEvents \cup {"script_missing"}) = {}
        /\ Events(h) \cap {"script_missing", "push_nonzero", "push_raise"}
                # {} =>
            Events(h) \cap (ExecuteEvents \cup CleanupEvents) = {}

\* one host was collected after an unreachable probe, one after a failed
\* transfer and one after a missing local script
C18_Witness ==
    \E a \in Collected, b \in Collected, c \in Collected :
        /\ "probe_unreachable" \in Events(a)
        /\ "push_nonzero" \in Events(b)
        /\ "script_missing" \in Events(c)

C20_CleanupNeverChangesOutcome ==
    \A h \in Hosts :
        Events(h) \cap CleanupEvents # {} =>
            /\ res[h] = "success" <=> "execute_zero" \in Events(h)
            /\ res[h] = "failed" <=> "execute_nonzero" \in Events(h)
            /\ "mark" \in Events(h) => mem[h] = res[h]
            /\ fault[h] <=> Events(h) \cap SaveRaiseEvents # {}
            /\ (h \in Collected /\ ~fault[h]) => prevOutcome[h] = res[h]

\* the cleanup of a host raised and the cleanup of another host failed;
\* the first has a successful outcome recorded in the state file, the
\* second a failed one
C20_Witness ==
    \E a \in Collected, b \in Collected :
        /\ "cleanup_raise" \in Events(a)
        /\ prevOutcome[a] = "success"
        /\ file.ok /\ file.map[a] = "success"
        /\ "cleanup_nonzero" \in Events(b)
        /\ "execute_nonzero" \in Events(b)
        /\ prevOutcome[b] = "failed"
        /\ file.map[b] = "failed"

\* position of a step in the order of deploy_and_record and of the loop
\* that collects its result
StepRank(e) ==
    IF e \in ProbeEvents THEN 1
    ELSE IF e \in PushEvents \cup {"script_missing"} THEN 2
    ELSE IF e \in ExecuteEvents THEN 3
    ELSE IF e \in CleanupEvents THEN 4
    ELSE IF e = "log" THEN 5
    ELSE IF e = "mark" THEN 6
    ELSE IF e = "save_open" THEN 7
    ELSE IF e \in SaveRaiseEvents \cup {"save_written"} THEN 8
    ELSE 9

\* the steps with which a deploy_and_record call ends: the state file is
\* written, or an exception leaves the call
CallEndEvents ==
    SaveRaiseEvents \cup {"save_written", "push_raise", "execute_raise"}

\* the step before step i of host h
Before(h, i) == trace[h][i - 1]

\* C21: the steps of one host are taken one after the other in the order
\* probe, push (local mode), execute, cleanup (local mode), log, state
\* entry, collection: each step comes after every earlier one that was
\* taken, execute follows a successful probe (GitHub mode) or a successful
\* push (local mode), the log follows the cleanup of an executed script,
\* the state entry follows the log, the collection follows the end of the
\* call.
C21_StepsInOrder ==
    \A h \in Hosts :
        /\ \A i \in DOMAIN trace[h] :
            /\ i = 1 => trace[h][i] \in ProbeEvents
            /\ i > 1 => StepRank(Before(h, i)) < StepRank(trace[h][i])
            /\ trace[h][i] \in PushEvents \cup {"script_missing"} =>
                ~use_github /\ Before(h, i) = "probe_ok"
            /\ trace[h][i] \in ExecuteEvents =>
                Before(h, i) = IF use_github THEN "probe_ok" ELSE "push_zero"
            /\ trace[h][i] \in CleanupEvents =>
                /\ ~use_github
                /\ Before(h, i) \in {"execute_zero", "execute_nonzero"}
            /\ (trace[h][i] = "log" /\ Events(h) \cap ExecuteEvents # {}) =>
                IF use_github
                THEN Before(h, i) \in {"execute_zero", "execute_nonzero"}
                ELSE Before(h, i) \in CleanupEvents
            /\ trace[h][i] = "mark" => Before(h, i) = "log"
            /\ trace[h][i] = "save_open" => Before(h, i) = "mark"
            /\ trace[h][i] = "collect" => Before(h, i) \in CallEndEvents

\* in a pool of two an earlier host is still at its push step when a later
\* host has gone through all steps in local mode and has been collected
C21_Witness ==
    /\ parallel = 2
    /\ ~use_github
    /\ \E a \in Hosts, b \in Hosts :
        /\ a < b
        /\ pc[a] = "push"
        /\ trace[b] = <<"probe_ok", "push_zero", "execute_zero",
                        "cleanup_zero", "log", "mark", "save_open",
                        "save_written", "collect">>

\* the deploy_device call of host h is over
AttemptEnded(h) ==
    pc[h] \in {"log", "mark", "save_open", "save_dump", "returned",
               "raised", "collected"}

\* C22: in local mode every attempt that transferred the script has done
\* the cleanup step when it ends, whatever the execute step did, a timeout
\* or another exception included.
C22_CleanupAfterTransfer ==
    \A h \in Hosts :
        ("push_zero" \in Events(h) /\ AttemptEnded(h)) =>
            Events(h) \cap CleanupEvents # {}

\* C25: a run changes only the state entries of the hosts it deploys to:
\* whenever no write of the state file is under way, during the deploy
\* step and after it, loading the file yields for every host that was not
\* selected the entry the file had before the run.
C25_UnselectedEntriesKept ==
    (main_pc \in {"running", "exited"} /\ DeployReached /\ lock = 0) =>
        \A h \in Hosts \ devices :
            GetStatus(Load(file), h) = GetStatus(Load(fileAtStart), h)

\* the exits before the deploy step that are no configuration error
EarlyStops == {"dry_run", "check", "declined", "no_devices"}

\* C26: a run that stops before the deploy step in dry-run mode, in check
\* mode, at a declined confirmation or with no host left after --resume
\* has not written the state file and has started no deploy_and_record
\* call; in dry-run mode no remote operation is performed on any host.
C26_EarlyStopWritesNothing ==
    /\ (main_pc = "exited" /\ exit_class \in EarlyStops) =>
        /\ file = fileAtStart
        /\ mem = Load(fileAtStart)
        /\ \A h \in Hosts : pc[h] = "idle"
    /\ dry_run => \A h \in Hosts : ~touched[h] /\ pc[h] = "idle"

\* a dry run over some hosts has ended; the state file has an entry of an
\* earlier run
C26_Witness ==
    /\ main_pc = "exited"
    /\ exit_class = "dry_run"
    /\ dry_run
    /\ devices # {}
    /\ \E h \in devices : file.map[h] = "failed"

\* the call has returned from a failed execute step
FailedExecute ==
    /\ call.path = "exit_nonzero"
    /\ call.stage \in {"returned", "recorded"}

\* C23 as stated: after a failed execute step the error message is the
\* captured error stream when that has at most 200 characters; otherwise
\* the message is the ellipsis and 200 characters, and its last 200
\* characters are the last 200 characters of the captured stream.  (A
\* stream with no character other than whitespace gets the generic message
\* and is left aside here.)
C23_TailOfErrorStream ==
    (FailedExecute /\ Strip(call.text) # << >>) =>
        LET message == deployment_result.error_message IN
        IF Len(call.text) <= ErrorLimit
        THEN message = call.text
        ELSE /\ Len(message) = Len(Ellipsis) + ErrorLimit
             /\ LastChars(message, ErrorLimit)
                    = LastChars(call.text, ErrorLimit)

\* C23 as amended: the error stream is taken without its leading and
\* trailing whitespace.  If that is empty the message is the generic
\* message; if it has at most 200 characters it is the message; otherwise
\* the message is the ellipsis followed by its last 200 characters.
C23_TailOfStrippedStream ==
    FailedExecute =>
        LET message == deployment_result.error_message
            stripped == Strip(call.text)
        IN
        /\ Len(message) <= Len(Ellipsis) + ErrorLimit
        /\ stripped = << >> => message = GenericMessage
        /\ (stripped # << >> /\ Len(stripped) <= ErrorLimit) =>
                message = stripped
        /\ Len(stripped) > ErrorLimit =>
            /\ Len(message) = Len(Ellipsis) + ErrorLimit
            /\ FirstChars(message, Len(Ellipsis)) = Ellipsis
            /\ LastChars(message, ErrorLimit)
                    = LastChars(stripped, ErrorLimit)
            /\ message[Len(message)] = stripped[Len(stripped)]

\* the error stream ends with a blank and is one character over the bound
\* without its blanks: the message is cut
C23_Witness ==
    /\ FailedExecute
    /\ Len(Strip(call.text)) = ErrorLimit + 1
    /\ call.text[Len(call.text)] = Blank
    /\ Len(deployment_result.error_message) = Len(Ellipsis) + ErrorLimit

\* C24: every failed outcome has a non-empty error message, on every path
\* (unreachable host, missing local script, failed transfer, non-zero exit
\* with an empty or blank error stream, exception), and so has every state
\* entry with status failed.
C24_ErrorNeverEmpty ==
    /\ (deployment_result.returned /\ ~deployment_result.success) =>
        deployment_result.error_message # << >>
    /\ state_entry.status = "failed" => state_entry.error # << >>
    /\ call.stage = "collected" =>
        /\ deployment_result.returned
        /\ deployment_result.success =>
            (call.path = "exit_zero" /\ state_entry.status = "success")

\* the install command failed with a blank error stream, the failure is
\* recorded and collected with the generic message
C24_Witness ==
    /\ call.path = "exit_nonzero"
    /\ call.stage = "collected"
    /\ call.text # << >>
    /\ Strip(call.text) = << >>
    /\ state_entry = [status |-> "failed", error |-> GenericMessage]
    /\ deployment_result.error_message = GenericMessage

====
